---- MODULE Spec2Model ----
(***************************************************************************)
(* PothosAudio: the audio source/sink blocks over PortAudio.               *)
(*                                                                         *)
(* The model covers the three generations of the block that the sources    *)
(* hold:                                                                   *)
(*   "common"     AudioBlock.cpp + AudioSink.cpp + the common AudioSource  *)
(*                (setupDevice and setupStream are separate calls),        *)
(*   "legacy"     the AudioBlock whose setupStream(deviceName, sampRate)   *)
(*                resolves the device itself through getDeviceMatch,       *)
(*   "standalone" AudioSource.cpp and the standalone AudioSink, which do   *)
(*                everything in their constructor.                         *)
(* PortAudio and the Pothos scheduler are the environment: what they       *)
(* return is drawn with \E from small sets.                                *)
(***************************************************************************)
EXTENDS Integers, Sequences, FiniteSets, TLC

VARIABLES
    devices,              \* the PortAudio device table: Seq of names, index i is devices[i+1]
    defaultInputDevice,   \* Pa_GetDefaultInputDevice()
    defaultOutputDevice,  \* Pa_GetDefaultOutputDevice()
    paInitCount,          \* Pa_Initialize calls of this block that no Pa_Terminate has matched
    variant,              \* which generation of the block
    isSink,               \* _isSink
    dtype,                \* the element type given to the constructor
    interleaved,          \* _interleaved
    phase,                \* "constructed" | "open" | "active" | "failed" | "crashed"
    device,               \* _streamParams.device
    sampleFormat,         \* _streamParams.sampleFormat
    stream,               \* _stream: "null" | "open"
    sendLabel,            \* _sendLabel
    reportLogger,         \* _reportLogger
    reportStderror,       \* _reportStderror
    backoffTime,          \* _backoffTime
    readyTime,            \* _readyTime
    now,                  \* std::chrono::high_resolution_clock::now()
    labels,               \* per output port: labels posted since the latest activate()
    mode,                 \* the argument of the latest successful setReportMode
    since,                \* what has happened since the latest activate()
    last                  \* the latest call and what it did

vars == << devices, defaultInputDevice, defaultOutputDevice, paInitCount, variant, isSink, dtype,
           interleaved, phase, device, sampleFormat, stream,
           sendLabel, reportLogger, reportStderror, backoffTime, readyTime, now,
           labels, mode, since, last >>

envVars == << devices, defaultInputDevice, defaultOutputDevice, paInitCount >>
ctorVars == << variant, isSink, dtype, interleaved >>
loopVars == << sendLabel, reportLogger, reportStderror, backoffTime, readyTime, labels, mode,
              since >>

----------------------------------------------------------------------------
(* Bounds of the model. *)

MaxDevices == 2     \* device tables hold 0..MaxDevices devices
NumChans == 2       \* numChans given to the constructor
MaxTime == 3        \* the clock runs over 1..MaxTime
MaxBackoff == 1     \* setBackoffTime is called with -1..MaxBackoff
MaxElems == 2       \* workInfo().minInElements / minOutElements in 0..MaxElems
MaxAvail == 2       \* Pa_GetStreamRead/WriteAvailable in -1..MaxAvail

----------------------------------------------------------------------------
(* Strings are sequences of characters. *)

Digits == {"0", "1", "2", "3", "4", "5", "6", "7", "8", "9"}

isdigit(c) == c \in Digits

DigitValue(c) ==
    CASE c = "0" -> 0 [] c = "1" -> 1 [] c = "2" -> 2 [] c = "3" -> 3 [] c = "4" -> 4
      [] c = "5" -> 5 [] c = "6" -> 6 [] c = "7" -> 7 [] c = "8" -> 8 [] c = "9" -> 9

all_of_isdigit(s) == \A i \in 1..Len(s) : isdigit(s[i])

INT_MAX == 2147483647

paNoDevice == -1

(* std::stoi on an all-digit string: the value, or std::out_of_range when   *)
(* it does not fit an int.  The running value never exceeds INT_MAX.       *)
RECURSIVE stoiFrom(_, _)
stoiFrom(s, acc) ==
    IF s = << >> THEN [error |-> "none", value |-> acc]
    ELSE IF acc > (INT_MAX - DigitValue(Head(s))) \div 10
         THEN [error |-> "std::out_of_range", value |-> 0]
         ELSE stoiFrom(Tail(s), 10 * acc + DigitValue(Head(s)))

stoi(s) == stoiFrom(s, 0)

(* The device names that the callers pass. *)
NameA == << "a" >>
NameB == << "b" >>
DeviceNameInputs ==
    { << >>, << "0" >>, << "1" >>, << "2" >>, << "0", "1" >>, << "1", "2" >>,
      << "9", "9", "9", "9", "9", "9", "9", "9", "9", "9" >>,
      NameA, NameB, << "a", "1" >> }

TableNames == {NameA, NameB}

RECURSIVE TablesOfLen(_)
TablesOfLen(n) ==
    IF n = 0 THEN { << >> }
    ELSE { Append(t, x) : t \in TablesOfLen(n - 1), x \in TableNames }

AllTables == UNION { TablesOfLen(n) : n \in 0..MaxDevices }

----------------------------------------------------------------------------
(* PortAudio queries. *)

Pa_GetDeviceCount == Len(devices)

ValidDevice(i) == i \in 0..(Pa_GetDeviceCount - 1)

Pa_GetDefaultInputDevice == defaultInputDevice
Pa_GetDefaultOutputDevice == defaultOutputDevice

SampleFormats == {"paFloat32", "paInt32", "paInt16", "paInt8", "paUInt8"}
DTypes == {"float32", "int32", "int16", "int8", "uint8"}
OtherDTypes == {"float64"}

paSampleFormatNotSupported == -9994

(* Pa_GetSampleSize masks the paNonInterleaved bit and sizes the rest. *)
Pa_GetSampleSize(format) ==
    CASE format.base = "paFloat32" -> 4
      [] format.base = "paInt32" -> 4
      [] format.base = "paInt16" -> 2
      [] format.base = "paInt8" -> 1
      [] format.base = "paUInt8" -> 1
      [] OTHER -> paSampleFormatNotSupported

DTypeSize(t) ==
    CASE t = "float32" -> 4
      [] t = "int32" -> 4
      [] t = "int16" -> 2
      [] t = "int8" -> 1
      [] t = "uint8" -> 1
      [] t = "float64" -> 8

SampleSizes == {1, 2, 3, 4}

(* The constructor's chain of ifs: a dtype that none of them names leaves   *)
(* sampleFormat as it was, that is uninitialized.                          *)
BaseFormatsOf(t) ==
    CASE t = "float32" -> {"paFloat32"}
      [] t = "int32" -> {"paInt32"}
      [] t = "int16" -> {"paInt16"}
      [] t = "int8" -> {"paInt8"}
      [] t = "uint8" -> {"paUInt8"}
      [] OTHER -> SampleFormats \cup {"garbage"}

(* if (not _interleaved) sampleFormat |= paNonInterleaved *)
FormatsOf(t, inter) == { [base |-> b, nonInterleaved |-> ~inter] : b \in BaseFormatsOf(t) }

Ports == IF interleaved THEN {0} ELSE 0..(NumChans - 1)

----------------------------------------------------------------------------
(* What a call did: one record shape for every call. *)

Did(op) ==
    [ op |-> op,            \* the call
      name |-> << >>,       \* its deviceName argument
      error |-> "none",     \* the exception it raised
      checked |-> "none",   \* Pa_IsFormatSupported was asked about "input" | "output"
      opened |-> "none",    \* Pa_OpenStream was given "input" | "output" parameters
      negotiated |-> 0,     \* sample size of the format the backend opened the stream with
      result |-> "none",    \* what Pa_ReadStream / Pa_WriteStream returned
      frames |-> 0,         \* frames read from / written to the stream
      moved |-> [p \in Ports |-> 0],  \* elements consumed / produced, per port
      yielded |-> FALSE,    \* this->yield()
      stderr |-> FALSE,     \* "aU" / "aO" went to std::cerr
      logged |-> FALSE,     \* poco_error
      labelled |-> FALSE,   \* postLabel on every output port
      slept |-> FALSE,      \* Pa_Sleep for the scheduler's timeout
      rewound |-> FALSE ]   \* the call left the ready time earlier than it found it

Threw(op, e) == [Did(op) EXCEPT !.error = e]

(* The history of the current activation, empty outside one. *)
Fresh ==
    [ worked |-> FALSE,     \* work() has been called
      xrun |-> FALSE,       \* a write reported underflow / a read reported overflow
      owed |-> 0,           \* what is left of the backoff time after the latest of them
      modeSet |-> FALSE ]   \* setReportMode has changed the mode

----------------------------------------------------------------------------
(* Device resolution. *)

MatchingIndexes(deviceName) ==
    { i \in 0..(Pa_GetDeviceCount - 1) : devices[i + 1] = deviceName }

Minimum(S) == CHOOSE x \in S : \A y \in S : x <= y
Maximum(S) == CHOOSE x \in S : \A y \in S : x >= y

(* A faulty scan that keeps going and returns the last device of the name. *)
LastNameMatch(deviceName) == Maximum(MatchingIndexes(deviceName))

(* for (i = 0; i < Pa_GetDeviceCount(); i++) if (name == deviceName) return i *)
FirstNameMatch(deviceName) == Minimum(MatchingIndexes(deviceName))

(* the negation of: index >= Pa_GetDeviceCount() *)
IndexInRange(index) == index < Pa_GetDeviceCount

(* getDeviceMatch: the index it returns, or the exception it throws. *)
getDeviceMatch(deviceName, defaultIndex) ==
    IF deviceName = << >> THEN [error |-> "none", index |-> defaultIndex]
    ELSE IF all_of_isdigit(deviceName)
    THEN LET parsed == stoi(deviceName) IN
         IF parsed.error # "none" THEN [error |-> parsed.error, index |-> paNoDevice]
         ELSE IF ~IndexInRange(parsed.value)
              THEN [error |-> "RangeException", index |-> paNoDevice]
              ELSE [error |-> "none", index |-> parsed.value]
    ELSE IF MatchingIndexes(deviceName) # {}
         THEN [error |-> "none", index |-> FirstNameMatch(deviceName)]
         ELSE [error |-> "NotFoundException", index |-> paNoDevice]

(* if (_isSink) Pa_GetDefaultOutputDevice() else Pa_GetDefaultInputDevice() *)
DefaultOfDirection == IF isSink THEN Pa_GetDefaultOutputDevice ELSE Pa_GetDefaultInputDevice

(* AudioBlock::setupDevice of the common block: the numeric branch stores   *)
(* the parsed index in _streamParams.device before it tests the range.     *)
(* It is a registered call that looks at no stream: any live block takes   *)
(* it.  The initializers of the block description call it before           *)
(* setupStream: initDevice is that call.                                    *)
setupDevice(deviceName) ==
    /\ variant = "common"
    /\ phase \in {"constructed", "open", "active"}
    /\ IF deviceName = << >>
       THEN /\ device' = DefaultOfDirection
            /\ last' = [Did("setupDevice") EXCEPT !.name = deviceName]
       ELSE IF all_of_isdigit(deviceName)
       THEN LET parsed == stoi(deviceName) IN
            IF parsed.error # "none"
            THEN /\ device' = device
                 /\ last' = [Threw("setupDevice", parsed.error) EXCEPT !.name = deviceName]
            ELSE /\ device' = parsed.value
                 /\ last' = IF ~IndexInRange(parsed.value)
                            THEN [Threw("setupDevice", "RangeException") EXCEPT !.name = deviceName]
                            ELSE [Did("setupDevice") EXCEPT !.name = deviceName]
       ELSE IF MatchingIndexes(deviceName) # {}
            THEN /\ device' = FirstNameMatch(deviceName)
                 /\ last' = [Did("setupDevice") EXCEPT !.name = deviceName]
            ELSE /\ device' = device
                 /\ last' = [Threw("setupDevice", "NotFoundException") EXCEPT !.name = deviceName]
    /\ UNCHANGED << envVars, ctorVars, loopVars, phase, sampleFormat, stream, now >>

initDevice(deviceName) == phase = "constructed" /\ setupDevice(deviceName)

----------------------------------------------------------------------------
(* Stream setup. *)

(* What follows the device lookup in every generation: the capability      *)
(* check, Pa_OpenStream and the sample-size check.  dev is the resolved     *)
(* device, checkDir the side on which the parameters go to                  *)
(* Pa_IsFormatSupported, wantedSize the size the last check compares with.  *)
(* fmtIn / fmtOut: the device supports the format as input / as output;     *)
(* openOk: Pa_OpenStream succeeds; negSize: the sample size of the format   *)
(* the backend runs the stream with.  Pa_OpenStream takes the parameters    *)
(* through a pointer to const: sampleFormat is the same after it.           *)
openStream(op, deviceName, dev, checkDir, wantedSize, fmtIn, fmtOut, openOk, negSize, onThrow) ==
    LET openDir == IF isSink THEN "output" ELSE "input"
        supported == IF checkDir = "input" THEN fmtIn ELSE fmtOut
        did == [Did(op) EXCEPT !.name = deviceName, !.checked = checkDir]
    IN  /\ device' = dev
        /\ IF ~ValidDevice(dev)
           THEN \* Pa_GetDeviceInfo returns NULL and deviceInfo->name reads through it
                /\ phase' = "crashed"
                /\ last' = [Threw(op, "SIGSEGV") EXCEPT !.name = deviceName]
                /\ UNCHANGED stream
           ELSE IF ~supported
           THEN /\ phase' = onThrow
                /\ last' = [did EXCEPT !.error = "Exception: Pa_IsFormatSupported"]
                /\ UNCHANGED stream
           ELSE IF ~openOk
           THEN /\ phase' = onThrow
                /\ last' = [did EXCEPT !.error = "Exception: Pa_OpenStream", !.opened = openDir]
                /\ UNCHANGED stream
           ELSE /\ stream' = "open"
                /\ IF Pa_GetSampleSize(sampleFormat) # wantedSize
                   THEN /\ phase' = onThrow
                        /\ last' = [did EXCEPT !.error = "Exception: Pa_GetSampleSize mismatch",
                                               !.opened = openDir, !.negotiated = negSize]
                   ELSE /\ phase' = "open"
                        /\ last' = [did EXCEPT !.opened = openDir, !.negotiated = negSize]

(* AudioBlock::setupStream(sampRate) of the common block. *)
setupStream(fmtIn, fmtOut, openOk, negSize) ==
    /\ variant = "common"
    /\ phase = "constructed"
    /\ LET requestedSize == Pa_GetSampleSize(sampleFormat) IN
       openStream("setupStream", << >>, device, "output", requestedSize,
                  fmtIn, fmtOut, openOk, negSize, "constructed")
    /\ UNCHANGED << envVars, ctorVars, loopVars, sampleFormat, now >>

(* AudioBlock::setupStream(deviceName, sampRate) of the legacy block. *)
setupStreamLegacy(deviceName, fmtIn, fmtOut, openOk, negSize) ==
    /\ variant = "legacy"
    /\ phase = "constructed"
    /\ LET match == getDeviceMatch(deviceName, Pa_GetDefaultOutputDevice)
           requestedSize == Pa_GetSampleSize(sampleFormat)
       IN IF match.error # "none"
          THEN /\ last' = [Threw("setupStream", match.error) EXCEPT !.name = deviceName]
               /\ UNCHANGED << device, phase, stream >>
          ELSE openStream("setupStream", deviceName, match.index, "output", requestedSize,
                          fmtIn, fmtOut, openOk, negSize, "constructed")
    /\ UNCHANGED << envVars, ctorVars, loopVars, sampleFormat, now >>

(* AudioSource::AudioSource / AudioSink::AudioSink of the standalone blocks, *)
(* after Pa_Initialize.  An exception leaves no block behind.              *)
construct(deviceName, fmtIn, fmtOut, openOk, negSize) ==
    /\ variant = "standalone"
    /\ phase = "constructed"
    /\ LET match == getDeviceMatch(deviceName, DefaultOfDirection) IN
       IF match.error # "none"
       THEN /\ last' = [Threw("construct", match.error) EXCEPT !.name = deviceName]
            /\ phase' = "failed"
            /\ UNCHANGED << device, stream >>
       ELSE openStream("construct", deviceName, match.index,
                       IF isSink THEN "output" ELSE "input", DTypeSize(dtype),
                       fmtIn, fmtOut, openOk, negSize, "failed")
    /\ UNCHANGED << envVars, ctorVars, loopVars, sampleFormat, now >>

----------------------------------------------------------------------------
(* The state after construction (for the standalone blocks: after the      *)
(* member initializers and Pa_Initialize).  _streamParams.device and        *)
(* _backoffTime have no initializer: they hold whatever was there.          *)

BackoffValues == (0 - 1)..MaxBackoff

(* A device table with its default devices: an index of the table, or     *)
(* paNoDevice when the host has no default for that direction.              *)
EnvsOf(tables) ==
    { [devices |-> t, in |-> i, out |-> o] :
        t \in tables, i \in (0 - 1)..(MaxDevices - 1), o \in (0 - 1)..(MaxDevices - 1) }

Envs(tables) == { e \in EnvsOf(tables) : e.in < Len(e.devices) /\ e.out < Len(e.devices) }

InitWith(envs, dtypes, variants, interleavings, backoffs) ==
    /\ \E e \in envs :
          /\ devices = e.devices
          /\ defaultInputDevice = e.in
          /\ defaultOutputDevice = e.out
    /\ paInitCount = 1
    /\ variant \in variants
    /\ isSink \in BOOLEAN
    /\ dtype \in dtypes
    /\ interleaved \in interleavings
    /\ phase = "constructed"
    /\ device \in (IF variant = "common" THEN {paNoDevice, 0} ELSE {paNoDevice})
    /\ sampleFormat \in FormatsOf(dtype, interleaved)
    /\ stream = "null"
    /\ sendLabel = FALSE
    /\ reportLogger = FALSE
    /\ reportStderror = TRUE
    /\ backoffTime \in backoffs
    /\ readyTime = 0
    /\ now = 1
    /\ labels = [p \in Ports |-> 0]
    /\ mode = "STDERROR"
    /\ since = Fresh
    /\ last = Did("init")

AllVariants == {"common", "legacy", "standalone"}

InitResolve == InitWith(Envs(AllTables), {"float32"}, AllVariants, {TRUE}, {0})

InitStream == InitWith(Envs({ << NameA >> }), DTypes \cup OtherDTypes, AllVariants, BOOLEAN, {0})

(* What PortAudio answers during one stream setup: whether the device      *)
(* supports the format as input and as output, whether Pa_OpenStream        *)
(* succeeds, and the sample size the opened stream runs with (0: no stream).*)
BackendAnswers ==
    { b \in [fmtIn : BOOLEAN, fmtOut : BOOLEAN, openOk : BOOLEAN, negSize : SampleSizes \cup {0}] :
        b.openOk <=> (b.negSize # 0) }

NextSetup ==
    \/ \E deviceName \in DeviceNameInputs : initDevice(deviceName)
    \/ \E b \in BackendAnswers : setupStream(b.fmtIn, b.fmtOut, b.openOk, b.negSize)
    \/ \E deviceName \in DeviceNameInputs, b \in BackendAnswers :
          setupStreamLegacy(deviceName, b.fmtIn, b.fmtOut, b.openOk, b.negSize)
    \/ \E deviceName \in DeviceNameInputs, b \in BackendAnswers :
          construct(deviceName, b.fmtIn, b.fmtOut, b.openOk, b.negSize)

(* Device resolution over every device table. *)
SpecResolve == InitResolve /\ [][NextSetup]_vars

(* Stream setup over every element type. *)
SpecStream == InitStream /\ [][NextSetup]_vars

----------------------------------------------------------------------------
(* The runtime setters. *)

ReportModes == {"LOGGER", "STDERROR", "DISABLED"}
ModeArguments == ReportModes \cup {"VERBOSE"}

Alive == phase \in {"constructed", "open", "active"}

(* A faulty setter that assigns the flags before it rejects the argument. *)
setReportModeAssignFirst(m) ==
    /\ Alive
    /\ reportLogger' = (m = "LOGGER")
    /\ reportStderror' = (m = "STDERROR")
    /\ IF m \notin ReportModes
       THEN /\ last' = Threw("setReportMode", "InvalidArgumentException")
            /\ UNCHANGED << mode, since >>
       ELSE /\ mode' = m
            /\ since' = [since EXCEPT !.modeSet = (phase = "active")]
            /\ last' = Did("setReportMode")
    /\ UNCHANGED << envVars, ctorVars, phase, device, sampleFormat, stream, sendLabel,
                    backoffTime, readyTime, now, labels >>

(* AudioBlock::setReportMode, AudioSource::setReportOverflow,               *)
(* AudioSink::setReportUnderflow.                                           *)
setReportMode(m) ==
    /\ Alive
    /\ IF m \notin ReportModes
       THEN /\ last' = Threw("setReportMode", "InvalidArgumentException")
            /\ UNCHANGED << reportLogger, reportStderror, mode, since >>
       ELSE /\ reportLogger' = (m = "LOGGER")
            /\ reportStderror' = (m = "STDERROR")
            /\ mode' = m
            /\ since' = [since EXCEPT !.modeSet = (phase = "active")]
            /\ last' = Did("setReportMode")
    /\ UNCHANGED << envVars, ctorVars, phase, device, sampleFormat, stream, sendLabel,
                    backoffTime, readyTime, now, labels >>

(* AudioBlock::setBackoffTime, setOverflowBackoff, setUnderflowBackoff: the *)
(* clock of the model counts milliseconds.                                  *)
setBackoffTime(backoff) ==
    /\ Alive
    /\ backoffTime' = backoff
    /\ last' = Did("setBackoffTime")
    /\ UNCHANGED << envVars, ctorVars, phase, device, sampleFormat, stream, sendLabel,
                    reportLogger, reportStderror, readyTime, now, labels, mode, since >>

----------------------------------------------------------------------------
(* activate / deactivate. *)

(* A faulty activate() that arms no flag in any block. *)
SendLabelNowhere == FALSE

(* The standalone AudioSink has no _sendLabel. *)
HasSendLabel == ~(variant = "standalone" /\ isSink)

activate(startOk) ==
    /\ phase = "open"
    /\ readyTime' = now
    /\ IF ~startOk
       THEN /\ last' = Threw("activate", "Exception: Pa_StartStream")
            /\ UNCHANGED << phase, sendLabel, labels, since >>
       ELSE /\ sendLabel' = (IF HasSendLabel THEN TRUE ELSE sendLabel)
            /\ phase' = "active"
            /\ labels' = [p \in Ports |-> 0]
            /\ since' = Fresh
            /\ last' = [Did("activate") EXCEPT !.rewound = (now < readyTime)]
    /\ UNCHANGED << envVars, ctorVars, device, sampleFormat, stream, reportLogger,
                    reportStderror, backoffTime, now, mode >>

(* A faulty deactivate() that also forgets the backoff. *)
deactivateResetting(stopOk) ==
    /\ phase = "active"
    /\ phase' = "open"
    /\ readyTime' = now
    /\ since' = Fresh
    /\ last' = IF stopOk THEN Did("deactivate")
               ELSE Threw("deactivate", "Exception: Pa_StopStream")
    /\ UNCHANGED << envVars, ctorVars, device, sampleFormat, stream, now, sendLabel,
                    reportLogger, reportStderror, backoffTime, labels, mode >>

(* AudioBlock::deactivate, AudioSource::deactivate, AudioSink::deactivate:  *)
(* Pa_StopStream and nothing else; the scheduler stops calling work()       *)
(* whether or not it threw.                                                 *)
deactivate(stopOk) ==
    /\ phase = "active"
    /\ phase' = "open"
    /\ since' = Fresh
    /\ last' = IF stopOk THEN Did("deactivate")
               ELSE Threw("deactivate", "Exception: Pa_StopStream")
    /\ UNCHANGED << envVars, ctorVars, device, sampleFormat, stream, now, sendLabel,
                    reportLogger, reportStderror, backoffTime, readyTime, labels, mode >>

----------------------------------------------------------------------------
(* work(). *)

MIN_FRAMES_BLOCKING == 2

paOutputUnderflowed == "paOutputUnderflowed"
paInputOverflowed == "paInputOverflowed"

WriteResults == {"paNoError", paOutputUnderflowed, "paUnanticipatedHostError"}
ReadResults == {"paNoError", paInputOverflowed, "paUnanticipatedHostError"}

Min(a, b) == IF a <= b THEN a ELSE b
Max(a, b) == IF a >= b THEN a ELSE b

(* A faulty count that clamps first and forces the minimum afterwards. *)
BlockingFramesForcedLast(avail, elements) ==
    IF avail = 0 THEN MIN_FRAMES_BLOCKING ELSE Min(avail, elements)

(* if (numFrames == 0) numFrames = MIN_FRAMES_BLOCKING;                     *)
(* numFrames = std::min<int>(numFrames, elements);                          *)
BlockingFrames(avail, elements) ==
    Min(IF avail = 0 THEN MIN_FRAMES_BLOCKING ELSE avail, elements)

(* A faulty work() that forgets to move the ready time. *)
ReadyTimeStale(err, xrun) == readyTime

(* if (err == xrun) _readyTime += _backoffTime; *)
ReadyTimeAfter(err, xrun) == IF err = xrun THEN readyTime + backoffTime ELSE readyTime

(* if (err == xrun) if (_reportStderror) std::cerr << "aU" / "aO" *)
StderrMarker(err, xrun) == err = xrun /\ reportStderror

(* A faulty work() that lets the logger flag decide for every error. *)
LogErrorByFlag(err, xrun) == err # "paNoError" /\ reportLogger

(* bool logError = err != paNoError; if (err == xrun) logError = _reportLogger; *)
LogError(err, xrun) == IF err = xrun THEN reportLogger ELSE err # "paNoError"

(* A faulty test that never reads the clock. *)
NotReadyNoClock(ready, clock) == ready >= 0

(* A faulty test that lets the loop go on at the ready time itself. *)
NotReadyStrict(ready, clock) == ready > clock

(* _readyTime >= std::chrono::high_resolution_clock::now() *)
NotReady(ready, clock) == ready >= clock

ReadyRange == (0 - 1)..(MaxTime + MaxBackoff)

(* A faulty work() that never clears the flag. *)
SendLabelKept(source) == sendLabel

(* if (_sendLabel) { _sendLabel = false; ... } in the sources; the sinks    *)
(* never touch the flag.                                                    *)
SendLabelAfter(source) == IF source THEN FALSE ELSE sendLabel

(* A faulty work() that consumes / produces what it wrote / read whatever    *)
(* the backoff test says.                                                   *)
MovedRegardless(wait, numFrames) == numFrames

(* if (_readyTime >= now()) return this->yield();                           *)
(* for (auto port : this->inputs()) port->consume(numFrames);               *)
Moved(wait, numFrames) == IF wait THEN 0 ELSE numFrames

(* From the read / write to the end of work(): reporting, the label (source *)
(* only), the backoff test against the clock read after the I/O, and the    *)
(* consume / produce on every port.  The blocking read / write has          *)
(* returned when the clock is read: the time it took is a Tick before.      *)
afterIO(numFrames, err, xrun, source) ==
    LET ready == ReadyTimeAfter(err, xrun)
        label == source /\ sendLabel
        wait == NotReady(ready, now)
    IN  /\ ready \in ReadyRange
        /\ readyTime' = ready
        /\ sendLabel' = SendLabelAfter(source)
        /\ since' = [since EXCEPT
                       !.worked = TRUE,
                       !.xrun = (since.xrun \/ err = xrun),
                       !.owed = (IF err = xrun THEN Min(Max(backoffTime, 0), MaxBackoff)
                                 ELSE since.owed)]
        /\ labels' = (IF label THEN [p \in Ports |-> labels[p] + 1] ELSE labels)
        /\ last' = [Did("work") EXCEPT
                      !.result = err,
                      !.frames = numFrames,
                      !.stderr = StderrMarker(err, xrun),
                      !.logged = LogError(err, xrun),
                      !.labelled = label,
                      !.rewound = (ready < readyTime),
                      !.yielded = wait,
                      !.moved = [p \in Ports |-> Moved(wait, numFrames)]]

(* A faulty work() that yields on its way out. *)
workIdleYielding(e) ==
    /\ last' = [e EXCEPT !.yielded = TRUE]
    /\ since' = [since EXCEPT !.worked = TRUE]
    /\ UNCHANGED << sendLabel, readyTime, labels >>

(* work() returning before the read / write: on no elements, on a failed   *)
(* availability query, on no frames (standalone source).                    *)
workIdle(e) ==
    /\ last' = e
    /\ since' = [since EXCEPT !.worked = TRUE]
    /\ UNCHANGED << sendLabel, readyTime, labels >>

(* AudioSink::work, both generations. *)
AudioSink_work(minInElements, avail, err) ==
    /\ isSink
    /\ phase = "active"
    /\ IF minInElements = 0 THEN workIdle(Did("work"))
       ELSE IF avail < 0
            THEN workIdle(Threw("work", "Exception: Pa_GetStreamWriteAvailable"))
            ELSE afterIO(BlockingFrames(avail, minInElements), err, paOutputUnderflowed,
                         FALSE)
    /\ UNCHANGED << envVars, ctorVars, phase, device, sampleFormat, stream, reportLogger,
                    reportStderror, backoffTime, mode, now >>

(* AudioSource::work of the common block. *)
AudioSource_work(minOutElements, avail, err) ==
    /\ ~isSink
    /\ variant # "standalone"
    /\ phase = "active"
    /\ IF minOutElements = 0 THEN workIdle(Did("work"))
       ELSE IF avail < 0
            THEN workIdle(Threw("work", "Exception: Pa_GetStreamReadAvailable"))
            ELSE afterIO(BlockingFrames(avail, minOutElements), err, paInputOverflowed,
                         TRUE)
    /\ UNCHANGED << envVars, ctorVars, phase, device, sampleFormat, stream, reportLogger,
                    reportStderror, backoffTime, mode, now >>

(* A faulty sleep that gives up the pending label. *)
workSleepDisarming ==
    /\ last' = [Did("work") EXCEPT !.slept = TRUE, !.yielded = TRUE]
    /\ since' = [since EXCEPT !.worked = TRUE]
    /\ sendLabel' = FALSE
    /\ UNCHANGED << readyTime, labels >>

(* if (numFrames == 0) { Pa_Sleep(maxTimeoutNs/1000000); return yield(); } *)
workSleep ==
    /\ last' = [Did("work") EXCEPT !.slept = TRUE, !.yielded = TRUE]
    /\ since' = [since EXCEPT !.worked = TRUE]
    /\ UNCHANGED << sendLabel, readyTime, labels >>

(* AudioSource::work of the standalone block: no frames, so Pa_Sleep for    *)
(* the scheduler's timeout and yield.                                       *)
AudioSource_work_standalone(minOutElements, avail, err) ==
    /\ ~isSink
    /\ variant = "standalone"
    /\ phase = "active"
    /\ IF minOutElements = 0 THEN workIdle(Did("work"))
       ELSE IF avail < 0
            THEN workIdle(Threw("work", "Exception: Pa_GetStreamReadAvailable"))
            ELSE IF Min(avail, minOutElements) = 0
                 THEN workSleep
                 ELSE afterIO(Min(avail, minOutElements), err, paInputOverflowed, TRUE)
    /\ UNCHANGED << envVars, ctorVars, phase, device, sampleFormat, stream, reportLogger,
                    reportStderror, backoffTime, mode, now >>

(* The clock. *)
Tick ==
    /\ now < MaxTime
    /\ now' = now + 1
    /\ since' = [since EXCEPT !.owed = Max(since.owed - 1, 0)]
    /\ last' = Did("tick")
    /\ UNCHANGED << envVars, ctorVars, phase, device, sampleFormat, stream, sendLabel,
                    reportLogger, reportStderror, backoffTime, readyTime, labels, mode >>

----------------------------------------------------------------------------
(* The life of one block: setup, then activate / work / deactivate, with    *)
(* the setters called at any time.                                          *)

Init == InitWith({ [devices |-> << NameA >>, in |-> 0, out |-> 0] }, {"float32"},
                 {"common", "standalone"}, BOOLEAN, BackoffValues)

Elements == 0..MaxElems
Available == (0 - 1)..MaxAvail

Next ==
    \/ \E deviceName \in DeviceNameInputs : initDevice(deviceName)
    \/ \E b \in BackendAnswers : setupStream(b.fmtIn, b.fmtOut, b.openOk, b.negSize)
    \/ \E deviceName \in DeviceNameInputs, b \in BackendAnswers :
          construct(deviceName, b.fmtIn, b.fmtOut, b.openOk, b.negSize)
    \/ \E m \in ModeArguments : setReportMode(m)
    \/ \E backoff \in BackoffValues : setBackoffTime(backoff)
    \/ \E startOk \in BOOLEAN : activate(startOk)
    \/ \E stopOk \in BOOLEAN : deactivate(stopOk)
    \/ \E n \in Elements, avail \in Available, err \in WriteResults :
          AudioSink_work(n, avail, err)
    \/ \E n \in Elements, avail \in Available, err \in ReadResults :
          AudioSource_work(n, avail, err)
    \/ \E n \in Elements, avail \in Available, err \in ReadResults :
          AudioSource_work_standalone(n, avail, err)
    \/ Tick

Spec == Init /\ [][Next]_vars

----------------------------------------------------------------------------
(* The streaming loop of the current block, report mode and backoff as      *)
(* constructed: setup, activate, work, deactivate.                          *)

InitFrames == InitWith({ [devices |-> << NameA >>, in |-> 0, out |-> 0] }, {"float32"},
                       {"common"}, BOOLEAN, {0})

NextFrames ==
    \/ \E deviceName \in DeviceNameInputs : initDevice(deviceName)
    \/ \E b \in BackendAnswers : setupStream(b.fmtIn, b.fmtOut, b.openOk, b.negSize)
    \/ \E startOk \in BOOLEAN : activate(startOk)
    \/ \E stopOk \in BOOLEAN : deactivate(stopOk)
    \/ \E n \in Elements, avail \in Available, err \in WriteResults :
          AudioSink_work(n, avail, err)
    \/ \E n \in Elements, avail \in Available, err \in ReadResults :
          AudioSource_work(n, avail, err)
    \/ Tick

SpecFrames == InitFrames /\ [][NextFrames]_vars

----------------------------------------------------------------------------
(* The scheduler keeps calling work() on an active block with data at hand, *)
(* and the clock keeps running up to the horizon MaxTime.                   *)

InitBackoff == InitWith({ [devices |-> << NameA >>, in |-> 0, out |-> 0] }, {"float32"},
                        {"common", "standalone"}, {TRUE}, BackoffValues)

NextBackoff ==
    \/ \E deviceName \in DeviceNameInputs : initDevice(deviceName)
    \/ \E b \in BackendAnswers : setupStream(b.fmtIn, b.fmtOut, b.openOk, b.negSize)
    \/ \E deviceName \in DeviceNameInputs, b \in BackendAnswers :
          construct(deviceName, b.fmtIn, b.fmtOut, b.openOk, b.negSize)
    \/ \E backoff \in BackoffValues : setBackoffTime(backoff)
    \/ \E startOk \in BOOLEAN : activate(startOk)
    \/ \E stopOk \in BOOLEAN : deactivate(stopOk)
    \/ \E n \in Elements, avail \in Available, err \in WriteResults :
          AudioSink_work(n, avail, err)
    \/ \E n \in Elements, avail \in Available, err \in ReadResults :
          AudioSource_work(n, avail, err)
    \/ \E n \in Elements, avail \in Available, err \in ReadResults :
          AudioSource_work_standalone(n, avail, err)
    \/ Tick

(* A work() invocation with input (output space) and frames at hand, its    *)
(* write (read) clean.                                                      *)
CleanWork ==
    \E n \in 1..MaxElems, avail \in 1..MaxAvail :
        \/ AudioSink_work(n, avail, "paNoError")
        \/ AudioSource_work(n, avail, "paNoError")
        \/ AudioSource_work_standalone(n, avail, "paNoError")

SpecBackoff ==
    InitBackoff /\ [][NextBackoff]_vars /\ WF_vars(Tick) /\ WF_vars(CleanWork)

----------------------------------------------------------------------------
(* The report mode set any number of times, before and after setup, in      *)
(* every generation of the block.                                           *)

InitReport == InitWith({ [devices |-> << NameA >>, in |-> 0, out |-> 0] }, {"float32"},
                       AllVariants, {TRUE}, {0})

NextReport ==
    \/ NextSetup
    \/ \E m \in ModeArguments : setReportMode(m)

SpecReport == InitReport /\ [][NextReport]_vars

----------------------------------------------------------------------------
(* Construction to destruction. *)

(* ~AudioBlock, ~AudioSource, ~AudioSink: Pa_CloseStream (the common block  *)
(* only when _stream is not null), then Pa_Terminate.  A destructor runs on *)
(* a block whose constructor has returned: for the standalone blocks that   *)
(* is a block with its stream open.  A constructor that threw leaves no     *)
(* object, and no destructor runs for it.                                   *)
destroy ==
    /\ IF variant = "standalone" THEN phase = "open" ELSE phase \in {"constructed", "open"}
    /\ phase' = "destroyed"
    /\ stream' = "null"
    /\ paInitCount' = paInitCount - 1
    /\ last' = Did("destroy")
    /\ UNCHANGED << devices, defaultInputDevice, defaultOutputDevice, ctorVars, loopVars,
                    device, sampleFormat, now >>

NextLifetime ==
    \/ NextSetup
    \/ destroy

SpecLifetime == InitStream /\ [][NextLifetime]_vars

----------------------------------------------------------------------------
(* The registered calls of one common block in any order: setupDevice is    *)
(* taken before and after the stream is opened.  The clock stands still.    *)

InitReconfigure ==
    InitWith({ [devices |-> << NameA, NameB >>, in |-> 0, out |-> 1] }, {"float32"},
             {"common"}, {TRUE}, {0})

NextReconfigure ==
    \/ \E deviceName \in DeviceNameInputs : setupDevice(deviceName)
    \/ \E b \in BackendAnswers : setupStream(b.fmtIn, b.fmtOut, b.openOk, b.negSize)
    \/ \E m \in ModeArguments : setReportMode(m)
    \/ \E backoff \in BackoffValues : setBackoffTime(backoff)
    \/ \E startOk \in BOOLEAN : activate(startOk)
    \/ \E stopOk \in BOOLEAN : deactivate(stopOk)
    \/ \E n \in Elements, avail \in Available, err \in WriteResults :
          AudioSink_work(n, avail, err)
    \/ \E n \in Elements, avail \in Available, err \in ReadResults :
          AudioSource_work(n, avail, err)

SpecReconfigure == InitReconfigure /\ [][NextReconfigure]_vars

----------------------------------------------------------------------------
(* The claims. *)

ResolverErrors == {"RangeException", "std::out_of_range", "NotFoundException"}

(* The latest call resolved a device name. *)
Resolved ==
    \/ last.op = "setupDevice"
    \/ (last.op = "setupStream" /\ variant = "legacy")
    \/ last.op = "construct"

IsNumeric(name) == name # << >> /\ \A i \in 1..Len(name) : name[i] \in Digits

IsTextual(name) == name # << >> /\ \E i \in 1..Len(name) : name[i] \notin Digits

(* The all-digit name denotes the one-digit number n: zeros, then n. *)
Denotes(name, n) ==
    /\ IsNumeric(name)
    /\ n \in 0..9
    /\ DigitValue(name[Len(name)]) = n
    /\ \A i \in 1..(Len(name) - 1) : name[i] = "0"

NamedLike(name) == { i \in 0..(Len(devices) - 1) : devices[i + 1] = name }

(* The overflow / underflow code of the block's direction. *)
Xrun == IF isSink THEN paOutputUnderflowed ELSE paInputOverflowed

MovedNothing(call) == \A p \in Ports : call.moved[p] = 0

(* C1: resolving the empty device name selects the default device of the    *)
(* block's own direction, the default input device for a source and the     *)
(* default output device for a sink, in every generation of the resolver.   *)
C1_EmptyNameSelectsDirectionDefault ==
    (Resolved /\ last.name = << >>) =>
        /\ last.error \notin ResolverErrors
        /\ device = (IF isSink THEN defaultOutputDevice ELSE defaultInputDevice)

(* C2: an all-digit device name denoting N fails with a range error and     *)
(* selects no device when N >= device count, and selects exactly device N   *)
(* when N < device count; so for every digit string, the ones beyond the    *)
(* int range included.                                                      *)
C2_NumericNameSelectsIndexOrRangeError ==
    [][ (Resolved' /\ IsNumeric(last'.name)) =>
          IF \E n \in 0..(Len(devices) - 1) : Denotes(last'.name, n)
          THEN last'.error \notin ResolverErrors /\ Denotes(last'.name, device')
          ELSE last'.error = "RangeException" /\ device' = device ]_vars

(* C3: a device name that is not empty and not all digits fails with a      *)
(* not-found error when no device of the table has that name, and selects   *)
(* the lowest-indexed device of that name when there is one.                *)
C3_TextualNameSelectsFirstMatchOrNotFound ==
    (Resolved /\ IsTextual(last.name)) =>
        IF NamedLike(last.name) = {}
        THEN last.error = "NotFoundException"
        ELSE /\ last.error \notin ResolverErrors
             /\ device \in NamedLike(last.name)
             /\ \A j \in NamedLike(last.name) : device <= j

(* C3 witness: two devices share the name, and the first of them is taken. *)
C3_Witness ==
    /\ Resolved
    /\ last.name = NameA
    /\ devices = << NameA, NameA >>
    /\ last.error \notin ResolverErrors
    /\ device = 0

(* C4: once the stream has been opened, stream setup fails whenever the     *)
(* sample size of the format the backend negotiated differs from the byte   *)
(* width of the requested element type; it never completes with such a      *)
(* stream.                                                                  *)
C4_SetupFailsOnNegotiatedSizeMismatch ==
    (last.op \in {"setupStream", "construct"} /\ last.negotiated # 0
        /\ last.negotiated # DTypeSize(dtype)) =>
        /\ last.error = "Exception: Pa_GetSampleSize mismatch"
        /\ phase # "open"

(* C5, as stated: a work() invocation whose write underflows (whose read    *)
(* overflows) leaves the ready time at its old value plus the backoff time, *)
(* and that invocation and every later work() invocation yield without      *)
(* consuming (producing) a frame while the clock has not passed the ready   *)
(* time.                                                                    *)
C5_EveryInvocationYieldsInBackoff ==
    [][ last'.op = "work" =>
          /\ (last'.result = Xrun => readyTime' = readyTime + backoffTime)
          /\ (since'.xrun /\ ~(now' > readyTime')) =>
                (last'.yielded /\ MovedNothing(last')) ]_vars

(* C5, amended: the ready time moves as stated; while the clock has not     *)
(* passed it, that invocation and every later one consume (produce)         *)
(* nothing, and each of them that performs the write (read) yields.  An     *)
(* invocation that returns before the I/O (no input, or the availability    *)
(* query failing) does not yield.                                           *)
C5_BackoffAdvancesAndSuspends ==
    [][ last'.op = "work" =>
          /\ (last'.result = Xrun => readyTime' = readyTime + backoffTime)
          /\ (since'.xrun /\ ~(now' > readyTime')) =>
                /\ MovedNothing(last')
                /\ (last'.result # "none" => last'.yielded) ]_vars

(* C5 witness: a later invocation, its own I/O clean, still yields inside   *)
(* the backoff that an earlier overflow / underflow started.                *)
C5_Witness ==
    /\ last.op = "work"
    /\ since.xrun
    /\ last.result = "paNoError"
    /\ backoffTime > 0
    /\ readyTime >= now
    /\ last.yielded
    /\ MovedNothing(last)

(* C6: after an underflow (overflow) reported at time t the sink (source)   *)
(* consumes (produces) nothing until the backoff time has elapsed since t,  *)
(* however long after activate() it was reported.                           *)
C6_NothingMovedUntilBackoffElapsed ==
    (last.op = "work" /\ since.owed > 0) => MovedNothing(last)

C8_FirstWorkPostsLabel ==
    [][ (~isSink /\ phase = "active" /\ ~since.worked /\ last'.op = "work") =>
          (last'.labelled /\ \A p \in Ports : labels'[p] = labels[p] + 1) ]_vars

(* C9: a report mode set while the stream runs governs the reporting of     *)
(* the next error, of any kind: the first work() invocation that hits an    *)
(* error after the change writes to stderr only in mode STDERROR and to the *)
(* logger only in mode LOGGER, with no reopen and no re-activation.         *)
C9_ReportFollowsLatestMode ==
    (last.op = "work" /\ since.modeSet /\ last.result \notin {"none", "paNoError"}) =>
        /\ last.stderr => (mode = "STDERROR")
        /\ last.logged => (mode = "LOGGER")

(* C10: in report mode DISABLED no work() invocation writes the stderr      *)
(* marker or a logger message, whatever the read / write returned.          *)
C10_DisabledReportsNothing ==
    (last.op = "work" /\ mode = "DISABLED") => (~last.stderr /\ ~last.logged)

AvailabilityErrors ==
    {"Exception: Pa_GetStreamWriteAvailable", "Exception: Pa_GetStreamReadAvailable"}

C12_SinkWorkWithoutInputDoesNothing ==
    [][ (isSink /\ last'.op = "work" /\ AudioSink_work(0, 0, "paNoError")) =>
          /\ last'.op = "work"
          /\ last'.error = "none" /\ last'.result = "none" /\ last'.frames = 0
          /\ MovedNothing(last')
          /\ ~last'.stderr /\ ~last'.logged /\ ~last'.yielded
          /\ UNCHANGED << readyTime, backoffTime, reportLogger, reportStderror >> ]_vars

(* C12 witness: a sink work() that neither wrote nor failed, inside a       *)
(* backoff window, and did not yield.                                       *)
C12_Witness ==
    /\ isSink
    /\ last.op = "work"
    /\ last.result = "none" /\ last.error = "none"
    /\ since.xrun /\ readyTime >= now
    /\ ~last.yielded
    /\ MovedNothing(last)

(* C13: a sink work() invocation with n > 0 input elements and writable     *)
(* capacity c writes min(c', n) frames, c' being c when c is not zero and   *)
(* the minimum blocking frame count when it is: never zero frames, never    *)
(* more than n.  The common source reads the same count, from the readable  *)
(* availability and the output space.                                       *)
C13_FramesAreClampedCapacity ==
    [][ \A n \in 1..MaxElems, avail \in 0..MaxAvail :
          ( /\ last'.op = "work"
            /\ IF isSink THEN AudioSink_work(n, avail, last'.result)
                         ELSE AudioSource_work(n, avail, last'.result) ) =>
          LET c == IF avail # 0 THEN avail ELSE MIN_FRAMES_BLOCKING IN
              /\ last'.op = "work" /\ last'.result # "none"
              /\ last'.frames = (IF c <= n THEN c ELSE n)
              /\ last'.frames >= 1
              /\ last'.frames <= n ]_vars

(* C13 witness: a sink write of as many frames as the minimum blocking      *)
(* count, consumed from every port.                                         *)
C13_Witness ==
    /\ isSink
    /\ last.op = "work"
    /\ last.result = "paNoError"
    /\ last.frames = MIN_FRAMES_BLOCKING
    /\ \A p \in Ports : last.moved[p] = MIN_FRAMES_BLOCKING

(* C14: a work() invocation that performs the write (the read) ends in      *)
(* exactly one of two ways: it yields and consumes (produces) nothing on    *)
(* any port, exactly when the ready time is not earlier than the current    *)
(* time; or it consumes (produces) the written (read) frame count, one or   *)
(* more, on every port, the same count on each.                             *)
C14_YieldsOrMovesWhatItWrote ==
    (last.op = "work" /\ last.result # "none") =>
        /\ last.frames >= 1
        /\ last.yielded <=> (readyTime >= now)
        /\ last.yielded => MovedNothing(last)
        /\ ~last.yielded => \A p \in Ports : last.moved[p] = last.frames

(* C14 witness: a sink with one port per channel wrote past its ready time  *)
(* and consumed the written count on each port.                             *)
C14_Witness ==
    /\ isSink /\ ~interleaved
    /\ last.op = "work"
    /\ last.result # "none"
    /\ readyTime < now
    /\ ~last.yielded
    /\ \A p \in Ports : last.moved[p] = last.frames /\ last.frames >= 1

(* C15: every successful activate() sets the ready time to the current time *)
(* and arms the one-shot rate-label flag, whatever earlier activations left *)
(* behind: a ready time that backoff had pushed into the future is gone,    *)
(* and no label of the new activation has been posted yet, so that the next *)
(* read posts it again.                                                     *)
C15_ActivateResetsReadyTimeAndArmsLabel ==
    (last.op = "activate" /\ last.error = "none") =>
        /\ phase = "active"
        /\ readyTime = now
        /\ (~isSink \/ variant = "common") => sendLabel
        /\ \A p \in Ports : labels[p] = 0

(* C15 witness: a source is activated again while the ready time of the     *)
(* activation before lay in the future.                                     *)
C15_Witness ==
    /\ ~isSink
    /\ last.op = "activate" /\ last.error = "none"
    /\ last.rewound
    /\ readyTime = now
    /\ sendLabel

(* C16: deactivate() only stops the stream: ready time, backoff time,       *)
(* report flags, rate-label flag and stream configuration are after it what *)
(* they were before it, whether Pa_StopStream succeeds or fails.            *)
C16_DeactivateKeepsBackoffAndConfiguration ==
    [][ last'.op = "deactivate" =>
          /\ UNCHANGED << readyTime, backoffTime, reportLogger, reportStderror, sendLabel >>
          /\ UNCHANGED << device, sampleFormat, interleaved, dtype, stream >> ]_vars

(* C16 witness: a failed deactivate() with the ready time still in the      *)
(* future.                                                                  *)
C16_Witness ==
    /\ last.op = "deactivate"
    /\ last.error = "Exception: Pa_StopStream"
    /\ backoffTime > 0
    /\ readyTime > now

(* C17: once setupStream has opened the stream, no call of the block        *)
(* (setupDevice, setupStream, setReportMode, setBackoffTime, activate,      *)
(* work, deactivate) changes a field of the stream configuration: device,   *)
(* sample format, channel layout.                                           *)
C17_ConfigurationFrozenOnceOpen ==
    [][ (phase = "open" \/ phase = "active") =>
          UNCHANGED << device, sampleFormat, interleaved, dtype >> ]_vars

(* C18: the ready time never moves back: no setBackoffTime, activate, work  *)
(* or deactivate call leaves it earlier than it found it, and the backoff   *)
(* added on an overflow / underflow is never negative.                      *)
C18_ReadyTimeNeverMovesBack ==
    [][ /\ readyTime' >= readyTime
        /\ (last'.op = "work" /\ last'.result = Xrun) => backoffTime >= 0 ]_vars

(* C19: Pa_IsFormatSupported is asked about the block's own direction, the  *)
(* input side for a source and the output side for a sink, which is also    *)
(* the side the stream is then opened on.                                   *)
C19_CapabilityCheckedForOwnDirection ==
    last.checked # "none" =>
        /\ last.checked = (IF isSink THEN "output" ELSE "input")
        /\ last.opened # "none" => last.opened = last.checked

(* C20: when the block is gone, destroyed or never constructed because its  *)
(* constructor threw after Pa_Initialize, every Pa_Initialize it made has   *)
(* been matched by a Pa_Terminate.                                          *)
C20_InitializationMatchedByTermination ==
    phase \in {"failed", "destroyed"} => paInitCount = 0

(* C21: in the standalone source a work() invocation with output space and  *)
(* no readable frames sleeps and yields: no read, no label, nothing         *)
(* produced, ready time and armed label flag as they were; and an           *)
(* invocation that reads while the flag is armed posts the label, so the    *)
(* label is posted by the next read.                                        *)
C21_StandaloneSleepsAndKeepsLabelArmed ==
    [][ (variant = "standalone" /\ ~isSink /\ last'.op = "work") =>
          /\ (\E n \in 1..MaxElems : AudioSource_work_standalone(n, 0, "paNoError")) =>
                /\ last'.slept /\ last'.yielded
                /\ last'.result = "none" /\ last'.frames = 0
                /\ ~last'.labelled /\ labels' = labels
                /\ MovedNothing(last')
                /\ readyTime' = readyTime
                /\ sendLabel' = sendLabel
          /\ (sendLabel /\ last'.result # "none") =>
                /\ last'.labelled
                /\ \A p \in Ports : labels'[p] = labels[p] + 1 ]_vars

(* C21 witness: the standalone source slept on no frames with the label     *)
(* still armed.                                                             *)
C21_Witness ==
    /\ variant = "standalone" /\ ~isSink
    /\ last.op = "work" /\ last.slept /\ last.yielded
    /\ sendLabel

(* The block yielded in its latest work() after an overflow / underflow     *)
(* of this activation, the clock not past the ready time r.                 *)
SuspendedUntil(r) ==
    /\ phase = "active"
    /\ since.xrun
    /\ last.op = "work" /\ last.yielded /\ last.result # "none"
    /\ readyTime = r
    /\ readyTime >= now

(* C22: backoff suspension is temporary.  A block suspended until a ready   *)
(* time the clock can pass eventually has a work() that consumes (produces) *)
(* frames on every port, unless a further overflow / underflow moves the    *)
(* ready time or the block leaves its activation first.                     *)
C22_BackoffSuspensionEnds ==
    \A r \in 1..(MaxTime - 1) :
        SuspendedUntil(r) ~>
            \/ last.op = "work" /\ \A p \in Ports : last.moved[p] >= 1
            \/ readyTime # r
            \/ phase # "active"

(* C22 witness: a work() consumes (produces) frames after the clock has     *)
(* passed a ready time that an overflow / underflow of this activation had  *)
(* moved.                                                                   *)
C22_Witness ==
    /\ phase = "active"
    /\ since.xrun /\ backoffTime > 0
    /\ last.op = "work" /\ last.result = "paNoError"
    /\ \A p \in Ports : last.moved[p] >= 1

(* C23: the two report flags always encode the last valid mode given to     *)
(* setReportMode, STDERROR before any (LOGGER: logger only, STDERROR:       *)
(* stderr only, DISABLED: neither), and are never both set; a call with an  *)
(* unknown mode raises an invalid-argument error and changes neither flag,  *)
(* a call with a known mode raises nothing.                                 *)
C23_FlagsEncodeLastValidMode ==
    /\ [](/\ reportLogger = (mode = "LOGGER")
          /\ reportStderror = (mode = "STDERROR")
          /\ ~(reportLogger /\ reportStderror))
    /\ [][ \A m \in ModeArguments : setReportMode(m) =>
              IF m \in ReportModes
              THEN last'.error = "none" /\ mode' = m
              ELSE /\ last'.error = "InvalidArgumentException"
                   /\ UNCHANGED << reportLogger, reportStderror, mode >> ]_vars

(* C23 witness: an unknown mode was rejected after DISABLED had been set,   *)
(* and neither flag is set.                                                 *)
C23_Witness ==
    /\ last.op = "setReportMode"
    /\ last.error = "InvalidArgumentException"
    /\ mode = "DISABLED"
    /\ ~reportLogger /\ ~reportStderror

(* C24: whenever device resolution returns without error the selected       *)
(* device index lies in [0, device count), for every name and every device  *)
(* table, the empty one with no default device included; and no stream      *)
(* setup looks up the device info of an invalid index.                      *)
C24_ResolvedDeviceIsValid ==
    /\ (Resolved /\ last.error \notin ResolverErrors) => ValidDevice(device)
    /\ last.error # "SIGSEGV"

====
